---- MODULE Spec2Model ----
(***************************************************************************)
(* Session / cart state of the browser client (src/frontend/script.js).    *)
(*                                                                         *)
(* JavaScript values are tagged records, JavaScript strings are sequences  *)
(* of lexemes (TLA+ strings), so that String(), JSON.stringify and         *)
(* JSON.parse are computed, not assumed.                                   *)
(***************************************************************************)
EXTENDS Integers, Sequences, FiniteSets, TLC

\* ------------------------------------------------------------------------
\* Bounds of the model
\* ------------------------------------------------------------------------
\* largest integer that has a numeric lexeme
MaxNum == 40
\* login / register attempts per behaviour
MaxIntentos == 2
\* page reloads per behaviour
MaxRecargas == 1
\* most units the cart holds
MaxCantidad == 2

\* ------------------------------------------------------------------------
\* JavaScript values
\* ------------------------------------------------------------------------
Undef == [t |-> "undefined"]
Null == [t |-> "null"]
Bool(b) == [t |-> "boolean", b |-> b]
Num(n) == [t |-> "number", n |-> n]
\* x is the string's content, a sequence of lexemes
Str(x) == [t |-> "string", s |-> x]
\* m is the sequence of members [k |-> key text, v |-> value], in insertion order
Obj(m) == [t |-> "object", m |-> m]
\* e is the sequence of elements
Arr(e) == [t |-> "array", e |-> e]

\* ToBoolean: the truthiness used by  a && b,  a || b,  !!a
Truthy(v) ==
  CASE v.t = "undefined" -> FALSE
    [] v.t = "null" -> FALSE
    [] v.t = "boolean" -> v.b
    [] v.t = "number" -> v.n # 0
    [] v.t = "string" -> v.s # <<>>
    [] OTHER -> TRUE

\* a || b
OrJS(a, b) == IF Truthy(a) THEN a ELSE b

\* v.k throws a TypeError exactly when v is null or undefined
CanGet(v) == v.t \notin {"undefined", "null"}

RECURSIVE Lookup(_, _, _)
Lookup(m, k, i) ==
  IF i = 0 THEN Undef
  ELSE IF m[i].k = k THEN m[i].v ELSE Lookup(m, k, i - 1)

\* v.k for a v that CanGet: an own member of an object, undefined otherwise
Get(v, k) == IF v.t = "object" THEN Lookup(v.m, k, Len(v.m)) ELSE Undef

RECURSIVE Join(_, _)
\* the texts of xs concatenated, separated by sep
Join(xs, sep) ==
  IF Len(xs) = 0 THEN <<>>
  ELSE IF Len(xs) = 1 THEN xs[1]
  ELSE xs[1] \o sep \o Join(Tail(xs), sep)

RECURSIVE ToStr(_)
\* String(v), as applied by template literals and by localStorage.setItem
ToStr(v) ==
  CASE v.t = "undefined" -> <<"undefined">>
    [] v.t = "null" -> <<"null">>
    [] v.t = "boolean" -> IF v.b THEN <<"true">> ELSE <<"false">>
    [] v.t = "number" -> <<ToString(v.n)>>
    [] v.t = "string" -> v.s
    [] v.t = "array" ->
         Join([i \in 1..Len(v.e) |->
                 IF CanGet(v.e[i]) THEN ToStr(v.e[i]) ELSE <<>>], <<",">>)
    [] OTHER -> <<"[object Object]">>

\* ------------------------------------------------------------------------
\* JSON.stringify / JSON.parse over lexeme sequences
\* ------------------------------------------------------------------------
DQ == "\""
BS == "\\"

RECURSIVE Escape(_)
\* the body of a JSON string literal: quotes and backslashes are escaped
Escape(x) ==
  IF Len(x) = 0 THEN <<>>
  ELSE (IF Head(x) \in {DQ, BS} THEN <<BS, Head(x)>> ELSE <<Head(x)>>)
       \o Escape(Tail(x))

\* mutant: the content is written between the quotes as it is
QuoteSinEscape(x) == <<DQ>> \o x \o <<DQ>>

Quote(x) == <<DQ>> \o Escape(x) \o <<DQ>>

RECURSIVE Kept(_)
\* the members JSON.stringify writes: those whose value is not undefined
Kept(m) ==
  IF Len(m) = 0 THEN <<>>
  ELSE (IF Head(m).v.t = "undefined" THEN <<>> ELSE <<Head(m)>>) \o Kept(Tail(m))

RECURSIVE StringifyText(_)
\* the text JSON.stringify(v) produces for a v other than undefined
StringifyText(v) ==
  CASE v.t = "null" -> <<"null">>
    [] v.t = "boolean" -> IF v.b THEN <<"true">> ELSE <<"false">>
    [] v.t = "number" -> <<ToString(v.n)>>
    [] v.t = "string" -> Quote(v.s)
    [] v.t = "array" ->
         <<"[">>
         \o Join([i \in 1..Len(v.e) |->
                    IF v.e[i].t = "undefined" THEN <<"null">>
                    ELSE StringifyText(v.e[i])], <<",">>)
         \o <<"]">>
    [] v.t = "object" ->
         LET m == Kept(v.m) IN
         <<"{">>
         \o Join([i \in 1..Len(m) |->
                    Quote(m[i].k) \o <<":">> \o StringifyText(m[i].v)], <<",">>)
         \o <<"}">>
    [] OTHER -> <<"null">>

\* JSON.stringify(v): a string, or undefined when v is undefined
JSONstringify(v) == IF v.t = "undefined" THEN Undef ELSE Str(StringifyText(v))

\* a lexeme that is the decimal numeral of a number
IsNumLex(l) == \E n \in 0..MaxNum : ToString(n) = l
NumOfLex(l) == CHOOSE n \in 0..MaxNum : ToString(n) = l

Fail == [ok |-> FALSE, v |-> Undef, i |-> 0]
Ok(v, i) == [ok |-> TRUE, v |-> v, i |-> i]

RECURSIVE ParseString(_, _, _)
\* x[i..] after an opening quote; acc is the content read so far
ParseString(x, i, acc) ==
  IF i > Len(x) THEN Fail
  ELSE IF x[i] = DQ THEN Ok(Str(acc), i + 1)
  ELSE IF x[i] = BS
       THEN IF i + 1 <= Len(x) /\ x[i + 1] \in {DQ, BS}
            THEN ParseString(x, i + 2, Append(acc, x[i + 1]))
            ELSE Fail
  ELSE ParseString(x, i + 1, Append(acc, x[i]))

RECURSIVE SetMember(_, _, _)
\* members m with key k bound to v: a repeated key keeps its place, last value wins
SetMember(m, k, v) ==
  IF Len(m) = 0 THEN <<[k |-> k, v |-> v]>>
  ELSE IF Head(m).k = k THEN <<[k |-> k, v |-> v]>> \o Tail(m)
  ELSE <<Head(m)>> \o SetMember(Tail(m), k, v)

RECURSIVE ParseValue(_, _), ParseMembers(_, _, _), ParseElems(_, _, _)
\* a JSON value starting at x[i]: [ok, v, i] with i the index after it
ParseValue(x, i) ==
  IF i > Len(x) THEN Fail
  ELSE CASE x[i] = "null" -> Ok(Null, i + 1)
         [] x[i] = "true" -> Ok(Bool(TRUE), i + 1)
         [] x[i] = "false" -> Ok(Bool(FALSE), i + 1)
         [] x[i] = DQ -> ParseString(x, i + 1, <<>>)
         [] x[i] = "{" ->
              IF i + 1 <= Len(x) /\ x[i + 1] = "}" THEN Ok(Obj(<<>>), i + 2)
              ELSE ParseMembers(x, i + 1, <<>>)
         [] x[i] = "[" ->
              IF i + 1 <= Len(x) /\ x[i + 1] = "]" THEN Ok(Arr(<<>>), i + 2)
              ELSE ParseElems(x, i + 1, <<>>)
         [] OTHER -> IF IsNumLex(x[i]) THEN Ok(Num(NumOfLex(x[i])), i + 1) ELSE Fail

\* "key" : value , ... }  starting at x[i]
ParseMembers(x, i, acc) ==
  IF i > Len(x) \/ x[i] # DQ THEN Fail
  ELSE LET k == ParseString(x, i + 1, <<>>) IN
       IF ~k.ok \/ k.i > Len(x) \/ x[k.i] # ":" THEN Fail
       ELSE LET r == ParseValue(x, k.i + 1) IN
            IF ~r.ok \/ r.i > Len(x) THEN Fail
            ELSE IF x[r.i] = "}" THEN Ok(Obj(SetMember(acc, k.v.s, r.v)), r.i + 1)
            ELSE IF x[r.i] = "," THEN ParseMembers(x, r.i + 1, SetMember(acc, k.v.s, r.v))
            ELSE Fail

\* value , ... ]  starting at x[i]
ParseElems(x, i, acc) ==
  LET r == ParseValue(x, i) IN
  IF ~r.ok \/ r.i > Len(x) THEN Fail
  ELSE IF x[r.i] = "]" THEN Ok(Arr(Append(acc, r.v)), r.i + 1)
  ELSE IF x[r.i] = "," THEN ParseElems(x, r.i + 1, Append(acc, r.v))
  ELSE Fail

\* JSON.parse(x): [ok |-> FALSE] is a thrown SyntaxError
JSONparse(x) ==
  LET r == ParseValue(x, 1) IN
  IF r.ok /\ r.i = Len(x) + 1 THEN [ok |-> TRUE, v |-> r.v] ELSE [ok |-> FALSE, v |-> Undef]

\* ------------------------------------------------------------------------
\* Program state
\* ------------------------------------------------------------------------
VARIABLES
  estado,        \* the in-memory object: usuario, token, carrito {items, total}
  localStorage,  \* key -> null (no item) or the stored string
  vista,         \* what mostrarInterfaz last rendered
  alertas,       \* the alert() calls of this page: how many, and the last text
  consola,       \* the console lines of the last handler that wrote any
  reqs,          \* the login / register calls in flight, in issue order
  intentos,      \* login / register calls issued by this page
  pagina,        \* position of the page's start-up script
  recargas,      \* page reloads so far
  rancias,       \* history: how many of the calls in flight, the first ones of
                 \* reqs, were issued before the session in memory originated
  pisada         \* history: what the last step overwrote when it was the answer
                 \* to such a call saving: "respuesta", "logout", else "nada"

vars == <<estado, localStorage, vista, alertas, consola, reqs, intentos, pagina, recargas,
          rancias, pisada>>

Claves == {"token", "user", "carrito"}

CarritoVacio == [items |-> <<>>, total |-> 0]

\* let estado = { usuario: null, token: null, carrito: { items: [], total: 0 } }
EstadoInicial == [usuario |-> Null, token |-> Null, carrito |-> CarritoVacio]

\* the document before the first mostrarInterfaz: the forms shown, the shop
\* hidden, no logout button in the navigation bar
VistaInicial == [formularios |-> TRUE, tienda |-> FALSE, salir |-> FALSE, nombre |-> <<>>]

\* the part of the state the synchronous functions read and write
Mundo ==
  [estado |-> estado, ls |-> localStorage, vista |-> vista, alertas |-> alertas,
   consola |-> consola]

\* the same at the start of a handler that writes to the console
MundoNuevo == [Mundo EXCEPT !.consola = <<>>]

\* localStorage.getItem / setItem / removeItem
getItem(ls, k) == ls[k]
setItem(ls, k, v) == [ls EXCEPT ![k] = Str(ToStr(v))]
removeItem(ls, k) == [ls EXCEPT ![k] = Null]

\* alert(v)
SinAlertas == [n |-> 0, ultima |-> <<>>]
alert(m, v) == [m EXCEPT !.alertas = [n |-> @.n + 1, ultima |-> ToStr(v)]]

\* console.log / console.error of a line: its fixed text l and its argument x
Log(m, l, x) == [m EXCEPT !.consola = Append(@, [l |-> l, x |-> x])]

\* the outcome of a synchronous call: returned, or threw the error err
Normal(m) == [m |-> m, thrown |-> FALSE, err |-> <<>>]
Throw(m, err) == [m |-> m, thrown |-> TRUE, err |-> err]

TypeError == <<"TypeError">>
SyntaxError == <<"SyntaxError">>
\* what a rejected fetch throws
FetchError == <<"TypeError: Failed to fetch">>

\* ------------------------------------------------------------------------
\* Cart manager
\* ------------------------------------------------------------------------
RECURSIVE Suma(_)
\* sum of precio * cantidad over the lines
Suma(items) ==
  IF Len(items) = 0 THEN 0
  ELSE Head(items).precio * Head(items).cantidad + Suma(Tail(items))

\* a cart line as the JavaScript object {id, nombre, precio, cantidad}
LineaJS(l) ==
  Obj(<<[k |-> <<"id">>, v |-> Num(l.id)],
        [k |-> <<"nombre">>, v |-> Str(l.nombre)],
        [k |-> <<"precio">>, v |-> Num(l.precio)],
        [k |-> <<"cantidad">>, v |-> Num(l.cantidad)]>>)

EsLineaJS(v) ==
  /\ v.t = "object"
  /\ Get(v, <<"id">>).t = "number"
  /\ Get(v, <<"nombre">>).t = "string"
  /\ Get(v, <<"precio">>).t = "number"
  /\ Get(v, <<"cantidad">>).t = "number"

LineaDeJS(v) ==
  [id |-> Get(v, <<"id">>).n, nombre |-> Get(v, <<"nombre">>).s,
   precio |-> Get(v, <<"precio">>).n, cantidad |-> Get(v, <<"cantidad">>).n]

\* the persisted snapshot of the cart: the JSON array of its lines
guardarCarrito(m) ==
  [m EXCEPT !.ls = setItem(@, "carrito",
      JSONstringify(Arr([i \in 1..Len(m.estado.carrito.items) |->
                            LineaJS(m.estado.carrito.items[i])])))]

\* total recomputed from scratch, then the snapshot persisted
Recalcular(m, items) ==
  guardarCarrito([m EXCEPT !.estado.carrito = [items |-> items, total |-> Suma(items)]])

\* addItem(item, quantity): merge into the line with the same id, else append
agregarAlCarrito(m, item, cantidad) ==
  LET items == m.estado.carrito.items
      ya == {i \in 1..Len(items) : items[i].id = item.id}
  IN Recalcular(m,
       IF ya # {}
       THEN [i \in 1..Len(items) |->
               IF i \in ya THEN [items[i] EXCEPT !.cantidad = @ + cantidad] ELSE items[i]]
       ELSE Append(items, [id |-> item.id, nombre |-> item.nombre,
                           precio |-> item.precio, cantidad |-> cantidad]))

\* removeItem(itemId): delete the matching line, a no-op when there is none
quitarDelCarrito(m, id) ==
  Recalcular(m, SelectSeq(m.estado.carrito.items, LAMBDA l : l.id # id))

\* ------------------------------------------------------------------------
\* Session manager and view controller
\* ------------------------------------------------------------------------
RECURSIVE cerrarSesion(_), mostrarInterfaz(_), cargarCarrito(_)

\* catalogue request of the shop view: writes none of the modelled state
cargarProductosTienda(m) == Normal(m)

EsCarritoJS(v) == v.t = "array" /\ \A i \in 1..Len(v.e) : EsLineaJS(v.e[i])

\* the cart restored from the parsed snapshot p, its total recomputed; a
\* snapshot that does not parse to cart lines forces a session clear
cargarCarritoDe(m, p) ==
  IF p.ok /\ EsCarritoJS(p.v)
  THEN Normal([m EXCEPT !.estado.carrito =
                 [items |-> [i \in 1..Len(p.v.e) |-> LineaDeJS(p.v.e[i])],
                  total |-> Suma([i \in 1..Len(p.v.e) |-> LineaDeJS(p.v.e[i])])]])
  ELSE cerrarSesion(m)

cargarCarrito(m) ==
  IF ~Truthy(getItem(m.ls, "carrito")) THEN Normal(m)
  ELSE cargarCarritoDe(m, JSONparse(getItem(m.ls, "carrito").s))

\* a statement that runs only when the ones before it did not throw
Luego(c, F(_)) == IF c.thrown THEN c ELSE F(c.m)

\* mostrarInterfaz, the navigation bar: d is the outcome of the lines before
mostrarInterfazNav(d, logueado) ==
  IF d.thrown THEN d
  ELSE IF logueado
       THEN IF CanGet(d.m.estado.usuario)
            THEN Normal([d.m EXCEPT !.vista.salir = TRUE,
                                    !.vista.nombre =
                                       ToStr(Get(d.m.estado.usuario, <<"nombre">>))])
            ELSE Throw(d.m, TypeError)
       ELSE Normal([d.m EXCEPT !.vista.salir = FALSE, !.vista.nombre = <<>>])

\* mostrarInterfaz, the sections: forms and public products, then the shop
mostrarInterfazSecciones(m, logueado) ==
  IF logueado
  THEN Luego(cargarCarrito([m EXCEPT !.vista.formularios = FALSE, !.vista.tienda = TRUE]),
             cargarProductosTienda)
  ELSE Normal([m EXCEPT !.vista.formularios = TRUE, !.vista.tienda = FALSE])

mostrarInterfazCon(m, logueado) ==
  mostrarInterfazNav(mostrarInterfazSecciones(m, logueado), logueado)

mostrarInterfaz(m) == mostrarInterfazCon(m, Truthy(m.estado.usuario))

\* mutant: the persisted cart is left behind
cerrarSesionDejaCarrito(m) ==
  mostrarInterfaz(
    Log([m EXCEPT !.estado.token = Null,
                  !.estado.usuario = Null,
                  !.estado.carrito = [items |-> <<>>, total |-> 0],
                  !.ls = removeItem(removeItem(@, "token"), "user")],
        "Sesión cerrada", <<>>))

\* mutant: the lines are dropped, the total is kept
cerrarSesionDejaTotal(m) ==
  mostrarInterfaz(
    Log([m EXCEPT !.estado.token = Null,
                  !.estado.usuario = Null,
                  !.estado.carrito.items = <<>>,
                  !.ls = removeItem(removeItem(removeItem(@, "token"), "user"),
                                    "carrito")],
        "Sesión cerrada", <<>>))

cerrarSesion(m) ==
  mostrarInterfaz(
    Log([m EXCEPT !.estado.token = Null,
                  !.estado.usuario = Null,
                  !.estado.carrito = [items |-> <<>>, total |-> 0],
                  !.ls = removeItem(removeItem(removeItem(@, "token"), "user"),
                                    "carrito")],
        "Sesión cerrada", <<>>))

\* mutant: the user is kept in memory only
guardarSesionEscribeSinUser(m, token, usuario) ==
  [m EXCEPT !.estado.token = token,
            !.estado.usuario = usuario,
            !.ls = setItem(@, "token", token)]

\* mutant: a session already in memory is kept, the first answer wins
guardarSesionEscribeSiVacia(m, token, usuario) ==
  IF Truthy(m.estado.usuario) \/ Truthy(m.estado.token) THEN m
  ELSE [m EXCEPT !.estado.token = token,
                 !.estado.usuario = usuario,
                 !.ls = setItem(setItem(@, "token", token), "user", JSONstringify(usuario))]

\* guardarSesion, the assignments and the two setItem calls
guardarSesionEscribe(m, token, usuario) ==
  [m EXCEPT !.estado.token = token,
            !.estado.usuario = usuario,
            !.ls = setItem(setItem(@, "token", token), "user", JSONstringify(usuario))]

guardarSesion(m, token, usuario) ==
  \* console.log(..., usuario.nombre)
  IF CanGet(usuario)
  THEN Normal(Log(guardarSesionEscribe(m, token, usuario), "Sesión guardada para:",
                  ToStr(Get(usuario, <<"nombre">>))))
  ELSE Throw(guardarSesionEscribe(m, token, usuario), TypeError)

\* mutant: the catch block only logs
cargarSesionGuardadaCatchSoloLog(m, err) ==
  Normal(Log(m, "Sesión corrupta, limpiando...", err))

\* cargarSesionGuardada, the catch block
cargarSesionGuardadaCatch(m, err) ==
  cerrarSesion(Log(m, "Sesión corrupta, limpiando...", err))

\* cargarSesionGuardada, the try block: m already holds the restored token,
\* p is the outcome of JSON.parse(usuarioGuardado)
cargarSesionGuardadaTry(m, p) ==
  IF ~p.ok THEN cargarSesionGuardadaCatch(m, SyntaxError)
  ELSE \* console.log(..., estado.usuario.nombre)
       IF CanGet(p.v)
       THEN Normal(Log([m EXCEPT !.estado.usuario = p.v], "Sesión restaurada:",
                       ToStr(Get(p.v, <<"nombre">>))))
       ELSE cargarSesionGuardadaCatch([m EXCEPT !.estado.usuario = p.v], TypeError)

\* mutant: the guard looks at the token alone ( JSON.parse(null) is null )
cargarSesionGuardadaSoloToken(m) ==
  IF Truthy(getItem(m.ls, "token"))
  THEN cargarSesionGuardadaTry([m EXCEPT !.estado.token = getItem(m.ls, "token")],
                               IF getItem(m.ls, "user") = Null
                               THEN [ok |-> TRUE, v |-> Null]
                               ELSE JSONparse(getItem(m.ls, "user").s))
  ELSE Normal(m)

cargarSesionGuardada(m) ==
  IF Truthy(getItem(m.ls, "token")) /\ Truthy(getItem(m.ls, "user"))
  THEN cargarSesionGuardadaTry([m EXCEPT !.estado.token = getItem(m.ls, "token")],
                               JSONparse(getItem(m.ls, "user").s))
  ELSE Normal(m)

\* ------------------------------------------------------------------------
\* Auth client
\* ------------------------------------------------------------------------
MsgConexion == Str(<<"No se pudo conectar con el servidor">>)
MsgErrorLogin == Str(<<"Error al iniciar sesión">>)
MsgErrorRegistro == Str(<<"Error al registrarse">>)

\* how the response line of the console shows respuesta.status
Estatus(ok) == IF ok THEN <<"2xx">> ELSE <<"no 2xx">>

\* mutant: the catch block alerts the generic login failure
iniciarSesionCatchGenerico(m, err) == alert(Log(m, "Error login:", err), MsgErrorLogin)

\* the catch block of iniciarSesion, on the state the throw left behind
iniciarSesionCatch(m, err) == alert(Log(m, "Error login:", err), MsgConexion)

\* iniciarSesion, the welcome alert after mostrarInterfaz returned or threw (r)
iniciarSesionSaludo(r, datos) ==
  IF r.thrown THEN iniciarSesionCatch(r.m, r.err)
  ELSE alert(r.m, Str(<<"Bienvenido, ">>
                      \o ToStr(Get(Get(datos, <<"usuario">>), <<"nombre">>))))

\* iniciarSesion, the success branch after guardarSesion returned or threw (g)
iniciarSesionOk(g, datos) ==
  IF g.thrown THEN iniciarSesionCatch(g.m, g.err)
  ELSE iniciarSesionSaludo(mostrarInterfaz(g.m), datos)

\* iniciarSesion, the branch on respuesta.ok: m holds the response line
iniciarSesionRama(m, ok, datos) ==
  IF ~CanGet(datos) THEN iniciarSesionCatch(m, TypeError)
  ELSE IF ok
       THEN iniciarSesionOk(guardarSesion(m, Get(datos, <<"token">>),
                                          Get(datos, <<"usuario">>)), datos)
       ELSE alert(m, OrJS(Get(datos, <<"message">>), MsgErrorLogin))

\* iniciarSesion after respuesta.json() settled as datos ([ok |-> FALSE]: it threw)
iniciarSesionDatos(m, ok, datos) ==
  IF ~datos.ok THEN iniciarSesionCatch(m, SyntaxError)
  ELSE iniciarSesionRama(Log(m, "Respuesta login:", Estatus(ok)), ok, datos.v)


\* the same stages of registrarUsuario
registrarUsuarioCatch(m, err) == alert(Log(m, "Error registro:", err), MsgConexion)

registrarUsuarioSaludo(r, datos) ==
  IF r.thrown THEN registrarUsuarioCatch(r.m, r.err)
  ELSE alert(r.m, Str(<<"Cuenta creada. Bienvenido, ">>
                      \o ToStr(Get(Get(datos, <<"usuario">>), <<"nombre">>))))

registrarUsuarioOk(g, datos) ==
  IF g.thrown THEN registrarUsuarioCatch(g.m, g.err)
  ELSE registrarUsuarioSaludo(mostrarInterfaz(g.m), datos)

registrarUsuarioRama(m, ok, datos) ==
  IF ~CanGet(datos) THEN registrarUsuarioCatch(m, TypeError)
  ELSE IF ok
       THEN registrarUsuarioOk(guardarSesion(m, Get(datos, <<"token">>),
                                             Get(datos, <<"usuario">>)), datos)
       ELSE alert(m, OrJS(Get(datos, <<"message">>), MsgErrorRegistro))

registrarUsuarioDatos(m, ok, datos) ==
  IF ~datos.ok THEN registrarUsuarioCatch(m, SyntaxError)
  ELSE registrarUsuarioRama(Log(m, "Respuesta registro:", Estatus(ok)), ok, datos.v)


\* the rejected fetch: straight to the catch block
iniciarSesionSinRed(m) == iniciarSesionCatch(m, FetchError)
registrarUsuarioSinRed(m) == registrarUsuarioCatch(m, FetchError)

\* ------------------------------------------------------------------------
\* Inputs: what the service answers, what a previous page left persisted
\* ------------------------------------------------------------------------
Miembro(k, v) == [k |-> <<k>>, v |-> v]

UsuarioAna ==
  Obj(<<Miembro("id", Num(1)), Miembro("nombre", Str(<<"Ana">>)),
        Miembro("email", Str(<<"a@x.com">>))>>)
UsuarioOHara ==
  Obj(<<Miembro("id", Num(2)), Miembro("nombre", Str(<<"O", DQ, "Hara">>)),
        Miembro("email", Str(<<"o", BS, "h@x.com">>))>>)
Usuarios == {UsuarioAna, UsuarioOHara}
Tokens == {Str(<<"abc">>), Str(<<"xyz">>)}

\* the parsed bodies a response may carry
Datos ==
  { Obj(<<Miembro("token", Str(<<"abc">>)), Miembro("usuario", UsuarioAna)>>),
    Obj(<<Miembro("token", Str(<<"xyz">>)), Miembro("usuario", UsuarioOHara)>>),
    Obj(<<Miembro("token", Str(<<"abc">>))>>),
    Obj(<<Miembro("usuario", UsuarioAna)>>),
    Obj(<<Miembro("token", Str(<<"abc">>)), Miembro("usuario", Bool(FALSE))>>),
    Obj(<<Miembro("message", Str(<<"bad credentials">>))>>),
    Obj(<<>>),
    Null }

\* a body that is not JSON
CuerpoRoto == <<"<html>">>

Cuerpos == {StringifyText(d) : d \in Datos} \cup {CuerpoRoto}


Respuestas == [ok : BOOLEAN, cuerpo : Cuerpos]

\* respuesta.json(): the outcome of JSON.parse on each body, computed once
respuestaJson == [c \in Cuerpos |-> JSONparse(c)]

\* iniciarSesion after both awaits: resp is [ok, cuerpo], the response's
\* status class and body text
iniciarSesionTras(m, resp) == iniciarSesionDatos(m, resp.ok, respuestaJson[resp.cuerpo])

\* the same of registrarUsuario
registrarUsuarioTras(m, resp) ==
  registrarUsuarioDatos(m, resp.ok, respuestaJson[resp.cuerpo])

Productos ==
  { [id |-> 1, nombre |-> <<"Foto">>, precio |-> 10],
    [id |-> 2, nombre |-> <<"Marco">>, precio |-> 5] }

Almacen(token, user, carrito) ==
  [k \in Claves |-> CASE k = "token" -> token [] k = "user" -> user [] OTHER -> carrito]

CarritoGuardado ==
  JSONstringify(Arr(<<LineaJS([id |-> 1, nombre |-> <<"Foto">>, precio |-> 10,
                               cantidad |-> 1])>>))

\* the stores a page may start on
Almacenes ==
  { Almacen(Null, Null, Null),
    Almacen(Str(<<"abc">>), Null, Null),
    Almacen(Null, JSONstringify(UsuarioAna), CarritoGuardado),
    Almacen(Null, Str(<<"{", DQ, "id">>), CarritoGuardado),
    Almacen(Str(<<"abc">>), JSONstringify(UsuarioAna), CarritoGuardado),
    Almacen(Str(<<"abc">>), Str(<<"{", DQ, "id">>), CarritoGuardado),
    Almacen(Str(<<"abc">>), Str(<<"5">>), Null) }

\* ------------------------------------------------------------------------
\* Actions
\* ------------------------------------------------------------------------
Aplicar(m) ==
  /\ estado' = m.estado
  /\ localStorage' = m.ls
  /\ vista' = m.vista
  /\ alertas' = m.alertas
  /\ consola' = m.consola

\* History of the session's writes.  The session in memory originates with
\* the click of a logout, or with the issue of the call whose answer wrote it.

\* the answer resp makes the handler reach guardarSesion(datos.token, datos.usuario)
Guarda(resp) ==
  /\ resp.ok
  /\ respuestaJson[resp.cuerpo].ok
  /\ CanGet(respuestaJson[resp.cuerpo].v)

\* the answers that do
Guardan == {resp \in Respuestas : Guarda(resp)}

\* what the answer to the call at position i of reqs overwrites by saving: a
\* logout leaves no persisted token, a saved answer leaves one
PisadaPor(i) ==
  IF i <= rancias
  THEN IF getItem(localStorage, "token") = Null THEN "logout" ELSE "respuesta"
  ELSE "nada"

\* rancias once the call at position i has left reqs
RanciasSin(i) == IF i <= rancias THEN rancias - 1 ELSE rancias

Init ==
  /\ estado = EstadoInicial
  /\ localStorage \in Almacenes
  /\ vista = VistaInicial
  /\ alertas = SinAlertas
  /\ consola = <<>>
  /\ reqs = <<>>
  /\ intentos = 0
  /\ pagina = "cargando"
  /\ recargas = 0
  /\ rancias = 0
  /\ pisada = "nada"

\* start-up, first statement: cargarSesionGuardada()
Restaurar ==
  /\ pagina = "cargando"
  /\ Aplicar(cargarSesionGuardada(MundoNuevo).m)
  /\ pagina' = "restaurada"
  /\ pisada' = "nada"
  /\ UNCHANGED <<reqs, intentos, recargas, rancias>>

\* start-up, second statement: mostrarInterfaz()
Arrancar ==
  /\ pagina = "restaurada"
  /\ Aplicar(mostrarInterfaz(Mundo).m)
  /\ pagina' = "lista"
  /\ pisada' = "nada"
  /\ UNCHANGED <<reqs, intentos, recargas, rancias>>

\* submit of a visible form: the handler runs up to its await fetch(...)
Enviar(fn) ==
  /\ pagina = "lista"
  /\ vista.formularios
  /\ intentos < MaxIntentos
  /\ intentos' = intentos + 1
  /\ reqs' = Append(reqs, fn)
  /\ pisada' = "nada"
  /\ UNCHANGED <<estado, localStorage, vista, alertas, consola, pagina, recargas, rancias>>

EnviarLogin == Enviar("login")
EnviarRegistro == Enviar("register")

\* the calls in flight once call i has run to its end
Quitado(q, i) == SubSeq(q, 1, i - 1) \o SubSeq(q, i + 1, Len(q))

\* fetch rejects: the service was not reached, the catch block runs
FetchFalla(i) ==
  /\ Aplicar(IF reqs[i] = "login" THEN iniciarSesionSinRed(MundoNuevo)
             ELSE registrarUsuarioSinRed(MundoNuevo))
  /\ reqs' = Quitado(reqs, i)
  /\ rancias' = RanciasSin(i)
  /\ pisada' = "nada"
  /\ UNCHANGED <<intentos, pagina, recargas>>

\* fetch resolves with the response resp = [ok, cuerpo] and respuesta.json()
\* settles on its body: the rest of the handler runs.  The handler reads and
\* writes nothing between its two awaits, so they are taken in one step.
RespondeCon(i, resp) ==
  /\ Aplicar(IF reqs[i] = "login" THEN iniciarSesionTras(MundoNuevo, resp)
             ELSE registrarUsuarioTras(MundoNuevo, resp))
  /\ reqs' = Quitado(reqs, i)
  /\ rancias' = IF resp \in Guardan THEN i - 1 ELSE RanciasSin(i)
  /\ pisada' = IF resp \in Guardan THEN PisadaPor(i) ELSE "nada"
  /\ UNCHANGED <<intentos, pagina, recargas>>

Responde(i) == \E resp \in Respuestas : RespondeCon(i, resp)

\* click on the logout button that mostrarInterfaz rendered
ClickCerrarSesion ==
  /\ pagina = "lista"
  /\ vista.salir
  /\ Aplicar(cerrarSesion(MundoNuevo).m)
  /\ rancias' = Len(reqs)
  /\ pisada' = "nada"
  /\ UNCHANGED <<reqs, intentos, pagina, recargas>>

RECURSIVE Unidades(_)
\* the units the cart holds, over all its lines
Unidades(items) ==
  IF Len(items) = 0 THEN 0 ELSE Head(items).cantidad + Unidades(Tail(items))

\* purchase of a product in the visible shop
Agregar ==
  /\ pagina = "lista"
  /\ vista.tienda
  /\ \E item \in Productos, c \in 1..MaxCantidad :
       /\ Unidades(estado.carrito.items) + c <= MaxCantidad
       /\ Aplicar(agregarAlCarrito(Mundo, item, c))
  /\ pisada' = "nada"
  /\ UNCHANGED <<reqs, intentos, pagina, recargas, rancias>>

Quitar ==
  /\ pagina = "lista"
  /\ vista.tienda
  /\ \E item \in Productos : Aplicar(quitarDelCarrito(Mundo, item.id))
  /\ pisada' = "nada"
  /\ UNCHANGED <<reqs, intentos, pagina, recargas, rancias>>

\* the page is reloaded: a fresh process on the same persisted store
Recargar ==
  /\ pagina = "lista"
  /\ recargas < MaxRecargas
  /\ estado' = EstadoInicial
  /\ vista' = VistaInicial
  /\ alertas' = SinAlertas
  /\ consola' = <<>>
  /\ reqs' = <<>>
  /\ intentos' = 0
  /\ pagina' = "cargando"
  /\ recargas' = recargas + 1
  /\ rancias' = 0
  /\ pisada' = "nada"
  /\ UNCHANGED localStorage

Next ==
  \/ Restaurar
  \/ Arrancar
  \/ EnviarLogin
  \/ EnviarRegistro
  \/ \E i \in 1..Len(reqs) : FetchFalla(i)
  \/ \E i \in 1..Len(reqs) : Responde(i)
  \/ ClickCerrarSesion
  \/ Agregar
  \/ Quitar
  \/ Recargar

Spec == Init /\ [][Next]_vars

\* The page on an empty persisted store, with answers on which guardarSesion,
\* when it is called, runs to its end ( usuario.nombre does not throw ).
InitVacio == Init /\ localStorage = Almacen(Null, Null, Null)

Completa(resp) ==
  resp \in Guardan => CanGet(Get(respuestaJson[resp.cuerpo].v, <<"usuario">>))

Completas == {resp \in Respuestas : Completa(resp)}

RespondeCompleta(i) == \E resp \in Completas : RespondeCon(i, resp)

NextVacio ==
  \/ Restaurar
  \/ Arrancar
  \/ EnviarLogin
  \/ EnviarRegistro
  \/ \E i \in 1..Len(reqs) : FetchFalla(i)
  \/ \E i \in 1..Len(reqs) : RespondeCompleta(i)
  \/ ClickCerrarSesion
  \/ Agregar
  \/ Quitar
  \/ Recargar

SpecVacio == InitVacio /\ [][NextVacio]_vars

\* ------------------------------------------------------------------------
\* Vocabulary of the properties
\* ------------------------------------------------------------------------
\* a field of the session that holds a value
Presente(v) == v.t \notin {"null", "undefined"}
\* the session states of the view controller
Autenticada == Truthy(estado.usuario)
\* no persisted key holds an item
AlmacenVacio(ls) == \A k \in Claves : ls[k] = Null
\* the state a handler can leave behind, without the console
Observable(m) == [estado |-> m.estado, ls |-> m.ls, vista |-> m.vista, alertas |-> m.alertas]
\* the bodies {token, usuario} of a successful answer
DatosSesion ==
  {d \in Datos : /\ d.t = "object"
                 /\ Get(d, <<"token">>) \in Tokens
                 /\ Get(d, <<"usuario">>) \in Usuarios}
\* the last console line, <<>> when there is none
UltimaLinea == IF Len(consola) = 0 THEN <<>> ELSE consola[Len(consola)].l

\* ------------------------------------------------------------------------
\* C1: in every reachable state the in-memory token and user are both
\* present or both absent.
\* ------------------------------------------------------------------------
C1_SesionCompleta == Presente(estado.token) <=> Presente(estado.usuario)

\* ------------------------------------------------------------------------
\* C2: a login or register answered with HTTP success and a body
\* {token, usuario} ends with the session equal to the returned token and
\* user, both mirrored in the persisted token and user keys, and the view in
\* the authenticated mode; processing the same answer as a login and as a
\* register gives the same session, persisted store and view.
\* ------------------------------------------------------------------------
\* what the claim says of the outcome m of an attempt answered with body d
SesionGuardada(m, d) ==
  /\ m.estado.token = Get(d, <<"token">>)
  /\ m.estado.usuario = Get(d, <<"usuario">>)
  /\ m.ls["token"] = Str(Get(d, <<"token">>).s)
  /\ m.ls["user"].t = "string"
  /\ JSONparse(m.ls["user"].s) = [ok |-> TRUE, v |-> Get(d, <<"usuario">>)]
  /\ m.vista = [formularios |-> FALSE, tienda |-> TRUE, salir |-> TRUE,
                nombre |-> Get(Get(d, <<"usuario">>), <<"nombre">>).s]

\* in every state with a call in flight, for every such answer to it
C2_ExitoGuardaSesion ==
  reqs # <<>> =>
    \A d \in DatosSesion :
      LET r == [ok |-> TRUE, cuerpo |-> StringifyText(d)]
          a == iniciarSesionTras(MundoNuevo, r)
          b == registrarUsuarioTras(MundoNuevo, r)
      IN /\ SesionGuardada(a, d)
         /\ SesionGuardada(b, d)
         /\ a.estado = b.estado
         /\ a.ls = b.ls
         /\ a.vista = b.vista

C2_Testigo ==
  /\ UltimaLinea = "Sesión guardada para:"
  /\ alertas.ultima = <<"Cuenta creada. Bienvenido, ", "O", DQ, "Hara">>
  /\ estado.token = Str(<<"xyz">>)
  /\ estado.usuario = UsuarioOHara
  /\ vista.salir

\* ------------------------------------------------------------------------
\* C3: a login or register answered with a non-2xx status leaves the session
\* and every persisted key as they were, and alerts the message of the body
\* when the body has one, the generic fallback otherwise.
\* ------------------------------------------------------------------------
MensajeDe(cuerpo, fallback) ==
  LET p == JSONparse(cuerpo) IN
  IF p.ok /\ p.v.t = "object" /\ Presente(Get(p.v, <<"message">>))
  THEN ToStr(Get(p.v, <<"message">>))
  ELSE ToStr(fallback)

C3_FalloMuestraMensaje ==
  [][\A i \in 1..Len(reqs) : \A c \in Cuerpos :
       RespondeCon(i, [ok |-> FALSE, cuerpo |-> c]) =>
         /\ estado' = estado
         /\ localStorage' = localStorage
         /\ alertas'.ultima =
              MensajeDe(c, IF reqs[i] = "login" THEN MsgErrorLogin ELSE MsgErrorRegistro)
    ]_vars

\* ------------------------------------------------------------------------
\* C4: a login or register whose request does not reach the service alerts
\* the connectivity message, which no answer of the service makes the
\* failure branch alert, changes neither the session nor a persisted key,
\* and ends without another request.
\* ------------------------------------------------------------------------
C4_SinRedSoloAvisa ==
  [][\A i \in 1..Len(reqs) :
       FetchFalla(i) =>
         /\ estado' = estado
         /\ localStorage' = localStorage
         /\ vista' = vista
         /\ alertas' = [n |-> alertas.n + 1, ultima |-> MsgConexion.s]
         /\ \A d \in Datos : \A fallback \in {MsgErrorLogin, MsgErrorRegistro} :
              Presente(d) => ToStr(OrJS(Get(d, <<"message">>), fallback)) # alertas'.ultima
         /\ reqs' = Quitado(reqs, i)
         /\ intentos' = intentos
    ]_vars

C4_Testigo ==
  /\ Len(consola) = 1
  /\ consola[1] = [l |-> "Error registro:", x |-> FetchError]
  /\ alertas = [n |-> 2, ultima |-> MsgConexion.s]
  /\ Autenticada

\* ------------------------------------------------------------------------
\* C5: from any state cerrarSesion returns with the session absent, the
\* cart empty with total 0 and none of the three persisted keys present, and
\* a second call right after it changes nothing.
\* ------------------------------------------------------------------------
C5_CerrarSesionLimpia ==
  LET r == cerrarSesion(MundoNuevo) IN
  /\ ~r.thrown
  /\ r.m.estado.token = Null
  /\ r.m.estado.usuario = Null
  /\ r.m.estado.carrito = [items |-> <<>>, total |-> 0]
  /\ AlmacenVacio(r.m.ls)
  /\ ~r.m.vista.salir /\ ~r.m.vista.tienda /\ r.m.vista.formularios
  /\ r.m.alertas = alertas
  /\ Observable(cerrarSesion(r.m).m) = Observable(r.m)

\* a logged-in page whose cart holds two lines, persisted: the state of a logout
C5_Testigo ==
  /\ Autenticada
  /\ vista.salir
  /\ Len(estado.carrito.items) = 2
  /\ localStorage["carrito"] # Null
  /\ localStorage["token"] # Null

\* ------------------------------------------------------------------------
\* C6: for a non-empty token and a user carrying id, nombre and email,
\* guardarSesion followed by cargarSesionGuardada in a fresh process on the
\* same persisted store yields that token and that user in memory.
\* ------------------------------------------------------------------------
\* a fresh process on the store that m leaves persisted
ProcesoNuevo(m) ==
  [estado |-> EstadoInicial, ls |-> m.ls, vista |-> VistaInicial,
   alertas |-> SinAlertas, consola |-> <<>>]

C6_GuardarYRestaurar ==
  \A token \in Tokens : \A usuario \in Usuarios :
    LET r == cargarSesionGuardada(ProcesoNuevo(guardarSesion(MundoNuevo, token, usuario).m))
    IN /\ ~r.thrown
       /\ r.m.estado.token = token
       /\ r.m.estado.usuario = usuario

\* a reloaded page that restored the session a register had saved
C6_Testigo ==
  /\ recargas = 1
  /\ pagina = "restaurada"
  /\ consola = <<[l |-> "Sesión restaurada:", x |-> <<"O", DQ, "Hara">>]>>
  /\ estado.token = Str(<<"xyz">>)
  /\ estado.usuario = UsuarioOHara

\* ------------------------------------------------------------------------
\* C7: cargarSesionGuardada on a persisted user key that is not valid JSON
\* ends with the session absent, the cart empty and the persisted keys
\* removed, and surfaces no error.
\* ------------------------------------------------------------------------
UsuarioIlegible(ls) == ls["user"].t = "string" /\ ~JSONparse(ls["user"].s).ok

SesionLimpiada(r) ==
  /\ ~r.thrown
  /\ r.m.estado.token = Null
  /\ r.m.estado.usuario = Null
  /\ r.m.estado.carrito = [items |-> <<>>, total |-> 0]
  /\ AlmacenVacio(r.m.ls)
  /\ r.m.alertas = alertas

\* as claimed: whatever the token key holds
C7_Original ==
  (pagina = "cargando" /\ UsuarioIlegible(localStorage))
    => SesionLimpiada(cargarSesionGuardada(MundoNuevo))

\* as the code has it: when the token key holds a non-empty string too
C7_CorruptaLimpia ==
  (pagina = "cargando" /\ UsuarioIlegible(localStorage)
     /\ Truthy(localStorage["token"]) /\ Truthy(localStorage["user"]))
    => SesionLimpiada(cargarSesionGuardada(MundoNuevo))

\* the page after the restore that found the user key unreadable
C7_Testigo ==
  /\ pagina = "restaurada"
  /\ Len(consola) = 2
  /\ consola[1] = [l |-> "Sesión corrupta, limpiando...", x |-> SyntaxError]
  /\ consola[2].l = "Sesión cerrada"
  /\ estado = EstadoInicial
  /\ AlmacenVacio(localStorage)

C9_Transiciones ==
  [][/\ (~Autenticada /\ Autenticada') =>
          \/ Restaurar
          \/ \E i \in 1..Len(reqs) : \E c \in Cuerpos :
               RespondeCon(i, [ok |-> TRUE, cuerpo |-> c])
     /\ (Autenticada /\ ~Autenticada') =>
          \/ ClickCerrarSesion
          \/ Recargar
          \/ Restaurar /\ UltimaLinea' = "Sesión cerrada"
     /\ \A i \in 1..Len(reqs) :
          (FetchFalla(i) \/ \E c \in Cuerpos : RespondeCon(i, [ok |-> FALSE, cuerpo |-> c]))
             => (Autenticada' <=> Autenticada)
     /\ (EnviarLogin \/ EnviarRegistro) => (Autenticada' <=> Autenticada)
    ]_vars

\* ------------------------------------------------------------------------
\* C10: cargarSesionGuardada with at most one of the persisted keys token
\* and user present leaves the session absent and writes nothing, neither
\* to memory nor to the persisted store.
\* ------------------------------------------------------------------------
C10_SinAmbasNoRestaura ==
  [][(Restaurar /\ (localStorage["token"] = Null \/ localStorage["user"] = Null)) =>
       /\ estado' = estado
       /\ estado'.token = Null
       /\ estado'.usuario = Null
       /\ localStorage' = localStorage
       /\ vista' = vista
       /\ alertas' = alertas
       /\ consola' = <<>>
    ]_vars

\* the page after a restore that found the user key alone
C10_Testigo ==
  /\ pagina = "restaurada"
  /\ localStorage["token"] = Null
  /\ localStorage["user"] = JSONstringify(UsuarioAna)
  /\ estado = EstadoInicial
  /\ consola = <<>>

\* ------------------------------------------------------------------------
\* C11: whenever no handler is running, the view shows the authenticated
\* regions (shop, user name and logout button) exactly when the session has
\* a user, and the anonymous regions (forms) exactly when it has none.
\* ------------------------------------------------------------------------
\* no handler is running: the start-up script has run to its end
EnReposo == pagina = "lista"

C11_VistaReflejaSesion ==
  EnReposo =>
    /\ vista.tienda <=> Autenticada
    /\ vista.salir <=> Autenticada
    /\ vista.formularios <=> ~Autenticada

\* ------------------------------------------------------------------------
\* C12: overlapping calls complete in any order: each call in flight can be
\* the next to complete, and when the answer to a call issued before the
\* session in memory originated (before a later call's answer was saved, or
\* before a logout) reaches guardarSesion, the session becomes the token and
\* user of that answer.
\* ------------------------------------------------------------------------
\* the handler of the call at position i of reqs, run on the answer resp
TrasRespuesta(i, resp) ==
  IF reqs[i] = "login" THEN iniciarSesionTras(MundoNuevo, resp)
  ELSE registrarUsuarioTras(MundoNuevo, resp)

C12_RespuestaRanciaGana ==
  /\ \A i \in 1..Len(reqs) : ENABLED Responde(i)
  /\ \A i \in 1..rancias : \A resp \in Guardan :
       /\ TrasRespuesta(i, resp).estado.token =
            Get(respuestaJson[resp.cuerpo].v, <<"token">>)
       /\ TrasRespuesta(i, resp).estado.usuario =
            Get(respuestaJson[resp.cuerpo].v, <<"usuario">>)

\* the answer to the login, issued first, has just replaced the session that
\* the answer to the register, issued second, had saved
C12_Testigo ==
  /\ pisada = "respuesta"
  /\ intentos = 2
  /\ reqs = <<>>
  /\ estado.token = Str(<<"abc">>)
  /\ estado.usuario = UsuarioAna
  /\ localStorage["user"] = JSONstringify(UsuarioAna)
  /\ alertas = [n |-> 2, ultima |-> <<"Bienvenido, ", "Ana">>]
  /\ vista.nombre = <<"Ana">>

\* the answer to a call issued before a logout has just signed Ana in again
C12_TrasLogout ==
  /\ pisada = "logout"
  /\ reqs = <<>>
  /\ estado.token = Str(<<"abc">>)
  /\ estado.usuario = UsuarioAna
  /\ vista.salir

\* ------------------------------------------------------------------------
\* C13: on a page that started on an empty persisted store, whenever no
\* handler is running and every guardarSesion and cerrarSesion call so far
\* ran to its end, the persisted token key is present exactly when the
\* in-memory token is set and holds its value, the persisted user key is
\* present exactly when the in-memory user is set and holds its JSON text,
\* and with the session cleared no persisted cart is left.
\* ------------------------------------------------------------------------
C13_AlmacenReflejaMemoria ==
  EnReposo =>
    /\ Presente(estado.token) <=> localStorage["token"] # Null
    /\ Presente(estado.token) => localStorage["token"] = estado.token
    /\ Presente(estado.usuario) <=> localStorage["user"] # Null
    /\ Presente(estado.usuario) => localStorage["user"] = JSONstringify(estado.usuario)
    /\ (estado.token = Null /\ estado.usuario = Null) => localStorage["carrito"] = Null

\* ------------------------------------------------------------------------
\* C14: every login or register call that completes shows exactly one
\* alert; the connectivity message is never the alert of a call whose
\* response arrived with HTTP success, and a call that shows it leaves the
\* session and the persisted keys as they were.
\* ------------------------------------------------------------------------
C14_UnAvisoConexionSoloSinRed ==
  [][\A i \in 1..Len(reqs) :
       /\ FetchFalla(i) => alertas'.n = alertas.n + 1
       /\ \A resp \in Respuestas :
            (reqs' = Quitado(reqs, i) /\ RespondeCon(i, resp)) =>
              /\ alertas'.n = alertas.n + 1
              /\ resp.ok => alertas'.ultima # MsgConexion.s
              /\ alertas'.ultima = MsgConexion.s =>
                   /\ estado' = estado
                   /\ localStorage' = localStorage
    ]_vars

====
